---- MODULE Spec2Model ----
(***************************************************************************)
(* Engine lifecycle of tank.platform.engine: start_engine, Engine.__init__ *)
(* with its app loading loop, Engine.destroy and the process-wide current  *)
(* engine pointer.  A behaviour is one Python process: the environment on  *)
(* disk is fixed in the initial state, client code then calls              *)
(* start_engine() and Engine.destroy() one after the other.  A             *)
(* start_engine() call is followed hook by hook (init_engine, every        *)
(* init_app, post_app_init, the engine-init-complete hook); destroy() is   *)
(* one step.  log holds the calls made by the call in progress (or the     *)
(* last one), res how the last call ended.  Plugin code may call           *)
(* register_command from a hook or between the calls (SpecCommands).       *)
(***************************************************************************)
EXTENDS Integers, Sequences, FiniteSets

\* Bounds of the model.
MaxEngines == 3      \* engines that start_engine may construct in one process
MaxApps == 2         \* app instances an environment declares for the engine
MaxFw == 1           \* frameworks a bundle's descriptor requires
MaxRegs == 2         \* register_command calls in one process
MaxParams == 2       \* settings of the engine install_engine goes through
MaxNested == 2       \* start_engine calls made by hooks of constructors

VARIABLES
    env,                \* the environment and plugin behaviour, read-only
    engines,            \* engine id -> the Engine object's fields
    nEngines,           \* engines start_engine has returned so far
    g_current_engine,   \* engine.py:488, 0 stands for None
    pc,                 \* where the start_engine call in progress stands
    app_index,          \* the app whose init_app is running (pc = "init_app")
    log,                \* calls made by the call in progress / the last call
    res,                \* outcome of the last call
    registrations,      \* register_command calls made, and the last one
    bundle,             \* a bundle and a get_setting call on it
    installer,          \* a run of the install_engine script
    picked,             \* a call of __pick_environment
    cache,              \* a menu cache folder and a ClearCacheAction run
    nested              \* start_engine calls made by hooks of a constructor

vars == <<env, engines, nEngines, g_current_engine, pc, app_index, log, res,
          registrations, bundle, installer, picked, cache, nested>>

\* What the engine, its commands, a bundle's settings and the installer
\* leave alone.
side == <<picked, cache, nested>>

\* What the calls of start_engine and Engine.destroy leave alone.
others == <<registrations, bundle, installer, picked, cache, nested>>

NoEngine == 0
EngineIds == 1..MaxEngines

----------------------------------------------------------------------------
\* The environment: what the collaborators outside engine.py answer.

\* Outcome of loading one declared app instance (engine.py:403-472):
\*   "ok"       exists on disk, validates, init_app returns
\*   "missing"  descriptor.exists_local() is False
\*   "invalid"  validate_context, validate_platform or validate_settings
\*              raises TankError
\*   "unsupported"  the descriptor lists supported engines and this engine
\*              is not one of them: TankError (engine.py:424-427)
\*   "valexc"   the validation code raises an exception that is no TankError
\*   "initfail" validates, is instantiated, init_app raises
AppKinds == {"ok", "missing", "invalid", "unsupported", "valexc", "initfail"}

\* Outcome of the engine's own validation (engine.py:57-64).
EngineChecks == {"ok", "context", "platform", "settings"}

\* Which teardown hook raises during destroy(): none, the engine's first
\* framework, the destroy_app of app instance 1, or destroy_engine.
TeardownFaults == {"none", "framework", "app", "engine"}

\* Outcome of __pick_environment (engine.py:555-582):
\*   "hook"        the pick_environment hook returns an environment name
\*   "shotgun"     the engine name is one of constants.SHOTGUN_ENGINES
\*   "hook_raises" the hook raises
\*   "hook_none"   the hook returns None
Picks == {"hook", "shotgun", "hook_raises", "hook_none"}

\* Outcome of looking the engine up in the environment (engine.py:529-537):
\* found, no engine instance of that name, or its descriptor not on disk.
Lookups == {"ok", "no_engine", "not_local"}

AppLists == UNION {[1..n -> AppKinds] : n \in 0..MaxApps}

\* Environments in which start_engine gets to the engine's constructor
\* through the pick_environment hook.
ConstructingEnvs ==
    [pick : {"hook"},
     lookup : {"ok"},
     engine_check : EngineChecks,
     log_error_overridden : BOOLEAN,
     apps : AppLists,
     nfw : 0..MaxFw,
     teardown_fault : TeardownFaults]

\* The other ways through __pick_environment and the engine lookup, for an
\* engine without apps and frameworks: when start_engine raises before the
\* constructor nothing else of the environment is read.
LookupEnvs ==
    [pick : Picks,
     lookup : Lookups,
     engine_check : {"ok"},
     log_error_overridden : {TRUE},
     apps : {<<>>},
     nfw : {0},
     teardown_fault : {"none"}]

Envs == ConstructingEnvs \cup LookupEnvs

NumApps == Len(env.apps)
DeclaredApps == 1..NumApps

----------------------------------------------------------------------------
\* Calls recorded in log: what was called, on which bundle (0 the engine,
\* i the app instance i) and, for a framework, which one.
Ev(ev, who, k) == [ev |-> ev, who |-> who, k |-> k]

\* Engine.__init__, engine.py:40-45: the fields of a new Engine object.
\* st is bookkeeping of the model: "none" no object, "constructing",
\* "failed" (the constructor raised), "live" (returned by start_engine),
\* "destroyed" (a destroy() call on it has returned).
NewEngine ==
    [st |-> "constructing",
     applications |-> {},
     frameworks |-> {},
     commands |-> <<>>,
     currently_initializing_app |-> 0]

NoObject == [NewEngine EXCEPT !.st = "none"]

\* start_engine, engine.py:513: "if current_engine():"
AlreadyRunningNever(c) == FALSE
AlreadyRunning(c) == c # NoEngine

\* Engine.__init__, engine.py:57-64: validate_context, validate_platform and
\* validate_settings raise TankError when the engine does not validate.
EngineValidationPasses(e) == FALSE
EngineValidationRaises(e) == e.engine_check # "ok"

\* Engine.log_error, engine.py:275-281: the base implementation calls the
\* file object sys.stderr, which raises TypeError; an engine class that
\* overrides log_error logs and returns.
LogErrorRaises == ~env.log_error_overridden

\* setup_frameworks(engine, bundle, env, descriptor): one framework per
\* framework the bundle's descriptor requires.
RequiredFrameworks == 1..env.nfw

\* Engine.__load_apps, engine.py:403-472, from declared app instance i up to
\* the next init_app call, the end of the loop or an exception leaving it.
\* An app that is skipped changes no field of the engine.
LoadAppsNone(i, lg) ==
    [stop |-> "post_app_init", app |-> 0,
     log |-> lg \o <<Ev("post_app_init", 0, 0)>>]
RECURSIVE LoadApps(_, _)
LoadApps(i, lg) ==
    IF i > NumApps
    THEN [stop |-> "post_app_init", app |-> 0,
          log |-> lg \o <<Ev("post_app_init", 0, 0)>>]
    ELSE LET kind == env.apps[i]
             said == CASE kind = "missing" ->
                            <<Ev("log_error", i, 0)>>
                       [] kind \in {"invalid", "unsupported"} ->
                            <<Ev("validate_app", i, 0), Ev("log_error", i, 0)>>
                       [] kind = "valexc" ->
                            <<Ev("validate_app", i, 0), Ev("log_exception", i, 0),
                              Ev("log_error", i, 0)>>
                       [] kind = "instfail" ->
                            <<Ev("validate_app", i, 0), Ev("get_application", i, 0),
                              Ev("log_exception", i, 0), Ev("log_error", i, 0)>>
                       [] kind = "fwfail" ->
                            <<Ev("validate_app", i, 0), Ev("get_application", i, 0),
                              Ev("setup_frameworks", i, 0),
                              Ev("log_exception", i, 0), Ev("log_error", i, 0)>>
                       [] OTHER ->
                            <<Ev("validate_app", i, 0), Ev("get_application", i, 0),
                              Ev("setup_frameworks", i, 0), Ev("init_app", i, 0)>>
         IN  IF kind \in {"ok", "initfail"}
             THEN [stop |-> "init_app", app |-> i, log |-> lg \o said]
             ELSE IF LogErrorRaises
                  THEN [stop |-> "raise", app |-> i, log |-> lg \o said]
                  ELSE LoadApps(i + 1, lg \o said)

\* The engine under construction lives in the slot after the last engine
\* start_engine returned; a failed construction leaves its object there
\* until the next construction.
Slot == nEngines + 1

Result(op, kind, eng, before) ==
    [op |-> op, kind |-> kind, eng |-> eng, before |-> before]

\* The state after __load_apps stopped as `r` says; `e` is the engine
\* object in Slot at that point.
AfterLoad(r, e) ==
    /\ log' = r.log
    /\ IF r.stop = "raise"
       THEN /\ pc' = "idle"
            /\ app_index' = 0
            /\ engines' = [engines EXCEPT ![Slot] = [e EXCEPT !.st = "failed"]]
            /\ res' = Result("start_engine", "TypeError", NoEngine, NoEngine)
       ELSE /\ pc' = r.stop
            /\ app_index' = r.app
            /\ engines' = [engines EXCEPT ![Slot] =
                              [e EXCEPT !.currently_initializing_app = r.app]]
            /\ UNCHANGED res

\* __pick_environment, engine.py:555-582: the calls it makes, and whether it
\* raises TankEngineInitError.
PickEnvironment ==
    [log |-> IF env.pick = "shotgun"
             THEN <<Ev("pick_environment", 0, 0)>>
             ELSE <<Ev("pick_environment", 0, 0), Ev("pick_environment_hook", 0, 0)>>,
     raises |-> env.pick \in {"hook_raises", "hook_none"}]

\* start_engine, engine.py:526-537: the environment is loaded; the engine
\* instance must be in it and its descriptor on disk.
FindEngine ==
    [log |-> <<Ev("load_environment", 0, 0)>>,
     raises |-> env.lookup # "ok"]

\* start_engine, engine.py:504-550, up to the engine's init_engine call.
StartEngine ==
    /\ pc = "idle"
    /\ IF AlreadyRunning(g_current_engine)
       THEN /\ res' = Result("start_engine", "TankError", NoEngine, g_current_engine)
            /\ log' = <<>>
            /\ UNCHANGED <<engines, nEngines, g_current_engine, pc, app_index>>
       ELSE /\ nEngines < MaxEngines
            /\ LET found == PickEnvironment.log \o FindEngine.log
               IN  IF PickEnvironment.raises
                   THEN /\ log' = PickEnvironment.log
                        /\ res' = Result("start_engine", "TankEngineInitError",
                                         NoEngine, NoEngine)
                        /\ UNCHANGED <<engines, pc, app_index>>
                   ELSE IF FindEngine.raises
                   THEN /\ log' = found
                        /\ res' = Result("start_engine", "TankEngineInitError",
                                         NoEngine, NoEngine)
                        /\ UNCHANGED <<engines, pc, app_index>>
                   ELSE IF EngineValidationRaises(env)
                   THEN /\ engines' = [engines EXCEPT
                                          ![Slot] = [NewEngine EXCEPT !.st = "failed"]]
                        /\ log' = found \o <<Ev("validate_engine", 0, 0)>>
                        /\ res' = Result("start_engine", "TankError", NoEngine, NoEngine)
                        /\ UNCHANGED <<pc, app_index>>
                   ELSE /\ engines' = [engines EXCEPT ![Slot] =
                                          [NewEngine EXCEPT !.frameworks = RequiredFrameworks]]
                        /\ log' = found \o <<Ev("validate_engine", 0, 0),
                                             Ev("setup_frameworks", 0, 0),
                                             Ev("init_engine", 0, 0)>>
                        /\ pc' = "init_engine"
                        /\ res' = Result("start_engine", "running", NoEngine, NoEngine)
                        /\ UNCHANGED app_index
            /\ UNCHANGED <<nEngines, g_current_engine>>
    /\ UNCHANGED env
    /\ UNCHANGED others

\* init_engine returns: Engine.__init__ goes on with __load_apps (engine.py:91-94).
InitEngineReturns ==
    /\ pc = "init_engine"
    /\ AfterLoad(LoadApps(1, log), engines[Slot])
    /\ UNCHANGED <<env, nEngines, g_current_engine>>
    /\ UNCHANGED others

InitAppReturnsKeepingFailed ==
    /\ pc = "init_app"
    /\ LET i == app_index
           e == [engines[Slot] EXCEPT !.currently_initializing_app = 0,
                                      !.applications = @ \cup {i}]
       IN  IF env.apps[i] = "initfail"
           THEN LET lg == log \o <<Ev("log_exception", i, 0), Ev("log_error", i, 0)>>
                IN  IF LogErrorRaises
                    THEN AfterLoad([stop |-> "raise", app |-> i, log |-> lg], e)
                    ELSE AfterLoad(LoadApps(i + 1, lg), e)
           ELSE AfterLoad(LoadApps(i + 1, log), e)
    /\ UNCHANGED <<env, nEngines, g_current_engine>>
    /\ UNCHANGED others

InitAppReturnsRollingBack ==
    /\ pc = "init_app"
    /\ LET i == app_index
           e == [engines[Slot] EXCEPT !.currently_initializing_app = 0]
           kept == {n \in DOMAIN e.commands : e.commands[n].properties.app # i}
           undone == [e EXCEPT !.commands = [n \in kept |-> e.commands[n]]]
       IN  IF env.apps[i] = "initfail"
           THEN LET lg == log \o <<Ev("log_exception", i, 0), Ev("log_error", i, 0)>>
                IN  IF LogErrorRaises
                    THEN AfterLoad([stop |-> "raise", app |-> i, log |-> lg], undone)
                    ELSE AfterLoad(LoadApps(i + 1, lg), undone)
           ELSE AfterLoad(LoadApps(i + 1, log),
                          [e EXCEPT !.applications = @ \cup {i}])
    /\ UNCHANGED <<env, nEngines, g_current_engine>>
    /\ UNCHANGED others

InitAppReturnsKeepingMarker ==
    /\ pc = "init_app"
    /\ LET i == app_index
           e == engines[Slot]
       IN  IF env.apps[i] = "initfail"
           THEN LET lg == log \o <<Ev("log_exception", i, 0), Ev("log_error", i, 0)>>
                IN  IF LogErrorRaises
                    THEN AfterLoad([stop |-> "raise", app |-> i, log |-> lg], e)
                    ELSE AfterLoad(LoadApps(i + 1, lg), e)
           ELSE AfterLoad(LoadApps(i + 1, log),
                          [e EXCEPT !.applications = @ \cup {i}])
    /\ UNCHANGED <<env, nEngines, g_current_engine>>
    /\ UNCHANGED others

InitAppReturnsRetrying ==
    /\ pc = "init_app"
    /\ LET i == app_index
           calls == {j \in DOMAIN log : log[j] = Ev("init_app", i, 0)}
           e == [engines[Slot] EXCEPT !.currently_initializing_app = 0]
       IN  IF env.apps[i] = "initfail" /\ Cardinality(calls) < 2
           THEN /\ log' = log \o <<Ev("init_app", i, 0)>>
                /\ UNCHANGED <<engines, pc, app_index, res>>
           ELSE AfterLoad(LoadApps(i + 1, log),
                          [e EXCEPT !.applications = @ \cup {i}])
    /\ UNCHANGED <<env, nEngines, g_current_engine>>
    /\ UNCHANGED others
\* init_app of app_index returns or raises (engine.py:460-472): the marker
\* is reset in the finally clause; an exception is logged by log_exception
\* and the app dropped, otherwise the app is stored under its instance name;
\* the loop goes on with the next declared app.
InitAppReturns ==
    /\ pc = "init_app"
    /\ LET i == app_index
           e == [engines[Slot] EXCEPT !.currently_initializing_app = 0]
       IN  IF env.apps[i] = "initfail"
           THEN LET lg == log \o <<Ev("log_exception", i, 0), Ev("log_error", i, 0)>>
                IN  IF LogErrorRaises
                    THEN AfterLoad([stop |-> "raise", app |-> i, log |-> lg], e)
                    ELSE AfterLoad(LoadApps(i + 1, lg), e)
           ELSE AfterLoad(LoadApps(i + 1, log),
                          [e EXCEPT !.applications = @ \cup {i}])
    /\ UNCHANGED <<env, nEngines, g_current_engine>>
    /\ UNCHANGED others

\* post_app_init returns: the engine-init-complete hook is executed
\* (engine.py:97-100).
PostAppInitReturns ==
    /\ pc = "post_app_init"
    /\ pc' = "init_complete"
    /\ log' = log \o <<Ev("engine_init_hook", 0, 0)>>
    /\ UNCHANGED <<env, engines, nEngines, g_current_engine, app_index, res>>
    /\ UNCHANGED others

\* start_engine, engine.py:548: set_current_engine(obj).
CurrentAfterStartKept(c, e) == c
CurrentAfterStart(c, e) == e

\* The hook returns, the constructor returns, start_engine registers the
\* engine and returns it (engine.py:100-103, 545-550).
InitCompleteReturns ==
    /\ pc = "init_complete"
    /\ pc' = "idle"
    /\ engines' = [engines EXCEPT ![Slot].st = "live"]
    /\ g_current_engine' = CurrentAfterStart(g_current_engine, Slot)
    /\ nEngines' = nEngines + 1
    /\ log' = log \o <<Ev("set_current_engine", Slot, 0)>>
    /\ res' = Result("start_engine", "ok", Slot, NoEngine)
    /\ UNCHANGED <<env, app_index>>
    /\ UNCHANGED others

----------------------------------------------------------------------------
\* Engine.destroy

\* Engine.destroy, engine.py:203-204: fw._destroy_framework() for every
\* framework of the engine.
EngineDestroyFrameworks(e) ==
    [k \in 1..Cardinality(e.frameworks) |-> Ev("destroy_framework", 0, k)]

\* app._destroy_frameworks(): the teardown of every framework of app i.
AppDestroyFrameworks(i) ==
    [k \in 1..Cardinality(RequiredFrameworks) |-> Ev("destroy_framework", i, k)]

\* Engine.__destroy_apps, engine.py:479-482, for one app: app._destroy_frameworks()
\* and then app.destroy_app().
DestroyAppSwapped(i) ==
    <<Ev("destroy_app", i, 0)>> \o AppDestroyFrameworks(i)
DestroyApp(i) ==
    AppDestroyFrameworks(i) \o <<Ev("destroy_app", i, 0)>>

\* Engine.__destroy_apps, engine.py:474-482: every value of the applications
\* dictionary, in the order `order` the dictionary yields them.
RECURSIVE DestroyAppsFrom(_, _)
DestroyAppsFrom(order, j) ==
    IF j > Len(order) THEN <<>>
    ELSE DestroyApp(order[j]) \o DestroyAppsFrom(order, j + 1)

DestroyAppsDeclared(order) ==
    DestroyAppsFrom([i \in DeclaredApps |-> i], 1)
DestroyAppsButLast(order) ==
    DestroyAppsFrom(SubSeq(order, 1, Len(order) - 1), 1)
DestroyApps(order) == DestroyAppsFrom(order, 1)

\* Engine.destroy, engine.py:203-212: the calls destroy() makes when no
\* teardown hook raises.
DestroyPlan(e, order) ==
    EngineDestroyFrameworks(e)
    \o DestroyApps(order)
    \o <<Ev("destroy_engine", 0, 0), Ev("set_current_engine", NoEngine, 0)>>

\* Whether the teardown hook called by `ev` raises in this environment.
Raises(ev) ==
    \/ env.teardown_fault = "framework"
         /\ ev = Ev("destroy_framework", 0, 1)
    \/ env.teardown_fault = "app" /\ ev = Ev("destroy_app", 1, 0)
    \/ env.teardown_fault = "engine" /\ ev = Ev("destroy_engine", 0, 0)

\* The calls destroy() gets to make: the plan up to the first hook that raises.
FirstRaiseCaught(plan) == 0
FirstRaise(plan) ==
    IF \E j \in 1..Len(plan) : Raises(plan[j])
    THEN CHOOSE j \in 1..Len(plan) :
             Raises(plan[j]) /\ \A h \in 1..(j - 1) : ~Raises(plan[h])
    ELSE 0

\* The orders in which a dictionary with the keys S may yield its values.
Orders(S) ==
    {o \in [1..Cardinality(S) -> S] : \A a, b \in DOMAIN o : a # b => o[a] # o[b]}

\* Engine.destroy, engine.py:212: set_current_engine(None).
CurrentAfterDestroyKept(c) == c
CurrentAfterDestroy(c) == NoEngine

\* e.destroy() on a handle start_engine returned, engine.py:197-212.
Destroy(id) ==
    /\ pc = "idle"
    /\ id \in 1..nEngines
    /\ \E order \in Orders(engines[id].applications) :
         LET plan == DestroyPlan(engines[id], order)
             stop == FirstRaise(plan)
         IN  IF stop = 0
             THEN /\ log' = plan
                  /\ g_current_engine' = CurrentAfterDestroy(g_current_engine)
                  /\ engines' = [engines EXCEPT ![id].st = "destroyed"]
                  /\ res' = Result("destroy", "ok", id, g_current_engine)
             ELSE /\ log' = SubSeq(plan, 1, stop)
                  /\ res' = Result("destroy", "Exception", id, g_current_engine)
                  /\ UNCHANGED <<engines, g_current_engine>>
    /\ UNCHANGED <<env, nEngines, pc, app_index>>
    /\ UNCHANGED others

----------------------------------------------------------------------------
\* Engine.register_command

\* The arguments plugin code passes: a command name, a callback and the
\* properties (None, or a dictionary of the caller).
CommandNames == {"cmd_a", "cmd_b"}
Callbacks == {"f", "g"}
CallerProperties == {"None", "given"}

\* register_command, engine.py:230-234: None becomes an empty dictionary, and
\* while an app is initializing its reference is stored under "app"
\* (app 0: no such key).
StoredPropertiesUntagged(p, marker) ==
    [dict |-> IF p = "None" THEN "empty" ELSE p, app |-> 0]
StoredProperties(p, marker) ==
    [dict |-> IF p = "None" THEN "empty" ELSE p, app |-> marker]

\* register_command, engine.py:235: self.__commands[name] = {...}.
PutIfAbsent(d, name, v) ==
    [n \in DOMAIN d \cup {name} |-> IF n \in DOMAIN d THEN d[n] ELSE v]
Put(d, name, v) ==
    [n \in DOMAIN d \cup {name} |-> IF n = name THEN v ELSE d[n]]

\* The engines plugin code can hold: those start_engine returned and, inside
\* a hook of the constructor, the engine under construction.
Reachable == (1..nEngines) \cup (IF pc = "idle" THEN {} ELSE {Slot})

NoRegistrations ==
    [n |-> 0, engine |-> NoEngine, name |-> "", callback |-> "",
     properties |-> "", previous |-> ""]

\* id.register_command(name, callback, p), engine.py:224-235, called from the
\* hook that is running or, between two calls, by client code.
RegisterCommand(id, name, callback, p) ==
    /\ registrations.n < MaxRegs
    /\ id \in Reachable
    /\ LET e == engines[id]
           entry == [callback |-> callback,
                     properties |->
                         StoredProperties(p, e.currently_initializing_app)]
       IN  /\ engines' = [engines EXCEPT ![id].commands = Put(@, name, entry)]
           /\ registrations' =
                  [n |-> registrations.n + 1, engine |-> id, name |-> name,
                   callback |-> callback, properties |-> p,
                   previous |-> IF name \in DOMAIN e.commands
                                THEN e.commands[name].callback ELSE ""]
    /\ UNCHANGED <<env, nEngines, g_current_engine, pc, app_index, log, res,
                   bundle, installer>>
    /\ UNCHANGED side

----------------------------------------------------------------------------
\* Framework.get_setting (framework.py)

\* The settings a bundle is constructed with (framework.py:37): a dictionary
\* from setting names to configured values, None among them.
SettingKeys == {"k1", "k2"}
SettingValues == {"v1", "v2", "None"}
SettingsDicts == UNION {[S -> SettingValues] : S \in SUBSET SettingKeys}

\* framework.py:157: self.__settings.get(key, default): the value returned,
\* whether the call raises, and the settings afterwards.
GetSettingByIndexing(settings, key, default) ==
    [result |-> IF key \in DOMAIN settings THEN settings[key] ELSE "",
     raises |-> key \notin DOMAIN settings,
     settings |-> settings]
GetSetting(settings, key, default) ==
    [result |-> IF key \in DOMAIN settings THEN settings[key] ELSE default,
     raises |-> FALSE,
     settings |-> settings]

NoBundle == [settings |-> <<>>, key |-> "", default |-> "", result |-> "",
             raised |-> FALSE, called |-> FALSE]

\* bundle.get_setting(key, default) on a bundle with any settings, for a
\* key that may or may not be configured.
CallGetSetting ==
    /\ ~bundle.called
    /\ bundle.key # ""
    /\ LET r == GetSetting(bundle.settings, bundle.key, bundle.default)
       IN  bundle' = [bundle EXCEPT !.called = TRUE, !.result = r.result,
                                    !.raised = r.raises, !.settings = r.settings]
    /\ UNCHANGED <<env, engines, nEngines, g_current_engine, pc, app_index, log,
                   res, registrations, installer>>
    /\ UNCHANGED side

----------------------------------------------------------------------------
\* install_engine.py

\* main, install_engine.py:165: the script takes three arguments, so
\* len(sys.argv) is 4.
ExpectedArgc == 4
Argcs == {1, 3, ExpectedArgc, 5}

\* What goes wrong in add_engine (install_engine.py:55-148): the environment
\* cannot be loaded, the engine is not in the app store, the environment has
\* the engine already, a constraint is not met, the download fails, or the
\* environment file cannot be updated.
InstallFaults ==
    {"none", "environment", "find_item", "duplicate", "constraints", "download",
     "update"}

\* install_engine.py:56-78 raise TankError; the other failures are whatever
\* exception the call raised.
ErrorOf(fault) ==
    IF fault \in {"environment", "find_item", "duplicate", "constraints"}
    THEN "TankError" ELSE "Exception"

\* param_diff, install_engine.py:95: per setting, whether it has a default
\* value (of type hook or not) or has none and is asked for.
SettingKinds == {"default", "hook", "prompt"}
ParamDiffs == UNION {[1..n -> SettingKinds] : n \in 0..MaxParams}

\* raw_input, install_engine.py:123: an empty line, a line that validates,
\* a line that does not, or end of input (EOFError).
Answers == {"", "valid", "invalid"}
Inputs == Answers \cup {"eof"}

\* install_engine.py:120-136: input_valid after one turn of the loop.
InputValidAlways(answer) == TRUE
InputValid(answer) == answer \in {"", "valid"}

\* install_engine.py:124-136: the value the turn stores in params.
ValueOf(answer) == IF answer = "" THEN "None" ELSE "validated"

\* asked is the number of prompts of the current setting modulo 2, stores
\* the names in the order params[name] was assigned.
NoInstaller ==
    [at |-> "off", argc |-> 0, fault |-> "none", param_diff |-> <<>>,
     idx |-> 0, params |-> <<>>, stores |-> <<>>, asked |-> 0, answer |-> "none",
     environment |-> "unchanged", error |-> "none", exit_code |-> 1]

\* __main__, install_engine.py:201-216: main(log) returned (error "none")
\* or raised; the script exits with exit_code.
Exits(i, error) ==
    [i EXCEPT !.at = "exited", !.error = error,
              !.exit_code = IF error = "none" THEN 0 ELSE @]

InstallerStep(i) ==
    /\ installer' = i
    /\ UNCHANGED <<env, engines, nEngines, g_current_engine, pc, app_index, log,
                   res, registrations, bundle>>
    /\ UNCHANGED side

\* main, install_engine.py:162-187.
Main ==
    /\ installer.at = "main"
    /\ IF installer.argc = 1 \/ installer.argc # ExpectedArgc
       THEN InstallerStep(Exits(installer, "none"))
       ELSE InstallerStep([installer EXCEPT !.at = "add_engine"])

\* add_engine, install_engine.py:46-101, up to the loop over the settings.
AddEngine ==
    /\ installer.at = "add_engine"
    /\ IF installer.fault \in {"none", "update"}
       THEN InstallerStep([installer EXCEPT !.at = "params", !.idx = 1])
       ELSE InstallerStep(Exits(installer, ErrorOf(installer.fault)))

\* install_engine.py:110-116: a setting with a default value.
AutoPopulate ==
    /\ installer.at = "params"
    /\ installer.idx <= Len(installer.param_diff)
    /\ installer.param_diff[installer.idx] # "prompt"
    /\ LET n == installer.idx
           v == IF installer.param_diff[n] = "hook" THEN "installed_hook"
                                                    ELSE "default"
       IN  InstallerStep([installer EXCEPT
               !.params = [m \in DOMAIN @ \cup {n} |-> IF m = n THEN v ELSE @[m]],
               !.stores = Append(@, n),
               !.idx = n + 1])

\* install_engine.py:120-136: one turn of the prompt loop of a setting
\* without default value.
Prompt(answer) ==
    /\ installer.at = "params"
    /\ installer.idx <= Len(installer.param_diff)
    /\ installer.param_diff[installer.idx] = "prompt"
    /\ LET n == installer.idx
       IN  IF answer = "eof"
           THEN InstallerStep(Exits([installer EXCEPT !.answer = answer], "Exception"))
           ELSE LET stored == [installer EXCEPT
                       !.params = [m \in DOMAIN @ \cup {n} |->
                                      IF m = n THEN ValueOf(answer) ELSE @[m]],
                       !.stores = Append(@, n)]
                    turn == [(IF answer = "invalid" THEN installer ELSE stored)
                                EXCEPT !.answer = answer, !.asked = 1 - @]
                IN  IF InputValid(answer)
                    THEN InstallerStep([turn EXCEPT !.idx = n + 1, !.asked = 0])
                    ELSE InstallerStep(turn)

WriteEnvironmentEarly ==
    /\ installer.at = "params"
    /\ IF installer.fault = "update"
       THEN InstallerStep(Exits([installer EXCEPT !.environment = "created"],
                                "Exception"))
       ELSE InstallerStep(Exits([installer EXCEPT !.environment = "added"], "none"))

\* install_engine.py:146-157: the three writes to the environment; add_engine
\* and main return.
WriteEnvironment ==
    /\ installer.at = "params"
    /\ installer.idx > Len(installer.param_diff)
    /\ IF installer.fault = "update"
       THEN InstallerStep(Exits([installer EXCEPT !.environment = "created"],
                                "Exception"))
       ELSE InstallerStep(Exits([installer EXCEPT !.environment = "added"], "none"))

\* The module state of engine.py at import, and no call made yet.
----------------------------------------------------------------------------
\* __pick_environment (engine.py:555-582)

\* constants.SHOTGUN_ENGINES and constants.SHOTGUN_ENVIRONMENT: the fixed
\* set of built-in Shotgun engine names and the environment they use.
ShotgunEngines == {"tk-shotgun", "tk-shotgun-2"}
ShotgunEnvironment == "shotgun"

\* Engine names a caller passes, environment names the hook can return (the
\* Shotgun environment among them) and the contexts it is asked for.
EngineNames == ShotgunEngines \cup {"tk-maya", "tk-nuke"}
EnvNames == {ShotgunEnvironment, "asset", "shot"}
Contexts == {"ctx1", "ctx2"}

\* The pick_environment core hook: per context it returns an environment
\* name, returns None or raises.
HookOutcomes == EnvNames \cup {"None", "raises"}
Hooks == [Contexts -> HookOutcomes]

\* __pick_environment(engine_name, tk, context), engine.py:555-582: the
\* environment name returned, the contexts the hook was executed with, and
\* the error raised.
PickEnvironmentAlwaysHook(engine_name, hook, context) ==
    [env_name |-> IF hook[context] \in EnvNames THEN hook[context] ELSE "",
     hook_calls |-> <<context>>,
     raises |-> IF hook[context] \in EnvNames THEN "none"
                                               ELSE "TankEngineInitError"]
PickEnvironmentFor(engine_name, hook, context) ==
    IF engine_name \in ShotgunEngines
    THEN [env_name |-> ShotgunEnvironment, hook_calls |-> <<>>, raises |-> "none"]
    ELSE IF hook[context] \in {"raises", "None"}
    THEN [env_name |-> "", hook_calls |-> <<context>>,
          raises |-> "TankEngineInitError"]
    ELSE [env_name |-> hook[context], hook_calls |-> <<context>>,
          raises |-> "none"]

NoPicked ==
    [engine_name |-> "", context |-> "", hook |-> <<>>, called |-> FALSE,
     env_name |-> "", hook_calls |-> <<>>, raises |-> "none"]

\* One call of __pick_environment, as start_engine makes it (engine.py:519).
CallPickEnvironment ==
    /\ picked.engine_name # ""
    /\ ~picked.called
    /\ LET r == PickEnvironmentFor(picked.engine_name, picked.hook, picked.context)
       IN  picked' = [picked EXCEPT !.called = TRUE, !.env_name = r.env_name,
                                    !.hook_calls = r.hook_calls,
                                    !.raises = r.raises]
    /\ UNCHANGED <<env, engines, nEngines, g_current_engine, pc, app_index, log,
                   res, registrations, bundle, installer, cache, nested>>

----------------------------------------------------------------------------
\* ClearCacheAction (misc.py)

\* File names, as the parts they are made of: two menu cache files, a file
\* that only starts like one, one that only ends like one, and another.
CacheFolderNames ==
    {<<"shotgun", "_mac_project", ".txt">>,
     <<"shotgun", ".txt">>,
     <<"shotgun", "_mac_project", ".txt", ".bak">>,
     <<"my_", "shotgun", ".txt">>,
     <<"notes", ".md">>}

\* misc.py:64: f.startswith("shotgun") and f.endswith(".txt").
IsCacheFileByPrefix(f) == f[1] = "shotgun"
IsCacheFile(f) == f[1] = "shotgun" /\ f[Len(f)] = ".txt"

\* len(args) of run_interactive, misc.py:53.
ArgCounts == {0, 1, 2}

\* listed is what os.listdir returned, todo the names the loop has not
\* reached, folder the files there are, locked those os.remove fails on.
NoCache ==
    [at |-> "off", mode |-> "", nargs |-> 0, folder |-> {}, locked |-> {},
     listed |-> {}, todo |-> {}, debug |-> {}, warnings |-> {},
     info |-> FALSE, error |-> "none"]

CacheStep(c) ==
    /\ cache' = c
    /\ UNCHANGED <<env, engines, nEngines, g_current_engine, pc, app_index, log,
                   res, registrations, bundle, installer, picked, nested>>

\* run_noninteractive(log, parameters) and run_interactive(log, args),
\* misc.py:36-55, up to the listing of the cache folder (misc.py:61-63).
RunClearCache ==
    /\ cache.at = "ready"
    /\ IF cache.mode = "interactive" /\ cache.nargs # 0
       THEN CacheStep([cache EXCEPT !.at = "done", !.error = "TankError"])
       ELSE CacheStep([cache EXCEPT !.at = "running", !.listed = cache.folder,
                                    !.todo = cache.folder])

\* One turn of the loop of _run, misc.py:63-70, for the name f.
RemoveCacheFile(f) ==
    /\ cache.at = "running"
    /\ f \in cache.todo
    /\ LET next == [cache EXCEPT !.todo = @ \ {f}]
       IN  IF ~IsCacheFile(f)
           THEN CacheStep(next)
           ELSE IF f \in cache.locked
           THEN CacheStep([next EXCEPT !.debug = @ \cup {f},
                                       !.warnings = @ \cup {f}])
           ELSE CacheStep([next EXCEPT !.debug = @ \cup {f},
                                       !.folder = @ \ {f}])

\* misc.py:72: the loop is over.
ClearCacheReturns ==
    /\ cache.at = "running"
    /\ cache.todo = {}
    /\ CacheStep([cache EXCEPT !.at = "done", !.info = TRUE])
----------------------------------------------------------------------------
\* start_engine called by a hook of an engine's constructor

\* The engine such a call constructs.
NestedId == MaxEngines

NoNested == [calls |-> 0, last |-> "none", before |-> NoEngine, at |-> "idle"]

\* Engine.__init__, engine.py:30-103, as a whole: whether the constructor of
\* an engine in this environment raises (engine.py:57-64, or the base
\* log_error called for an app that is not loaded), and the apps it loads.
ConstructorRaises ==
    \/ EngineValidationRaises(env)
    \/ LogErrorRaises /\ \E i \in DeclaredApps : env.apps[i] # "ok"
LoadedApps == {i \in DeclaredApps : env.apps[i] = "ok"}

\* init_engine, init_app, post_app_init or the engine-init-complete hook of
\* the engine under construction calls start_engine (engine.py:504-550) and
\* catches what it raises; the hooks of the engine this call constructs
\* start no engine themselves.
HookStartsEngine ==
    /\ pc # "idle"
    /\ nested.calls < MaxNested
    /\ Slot # NestedId
    /\ LET outcome == IF AlreadyRunning(g_current_engine) THEN "TankError"
                      ELSE IF ConstructorRaises THEN "TypeError" ELSE "ok"
       IN  /\ nested' = [calls |-> nested.calls + 1, last |-> outcome,
                         before |-> g_current_engine, at |-> pc]
           /\ IF outcome = "TankError"
              THEN UNCHANGED <<engines, g_current_engine>>
              ELSE IF outcome = "TypeError"
              THEN /\ engines' = [engines EXCEPT
                                     ![NestedId] = [NewEngine EXCEPT !.st = "failed"]]
                   /\ UNCHANGED g_current_engine
              ELSE /\ engines' = [engines EXCEPT
                                     ![NestedId] = [NewEngine EXCEPT
                                                       !.st = "live",
                                                       !.applications = LoadedApps]]
                   /\ g_current_engine' = CurrentAfterStart(g_current_engine, NestedId)
    /\ UNCHANGED <<env, nEngines, pc, app_index, log, res, registrations, bundle,
                   installer, picked, cache>>

SideAtStart ==
    /\ picked = NoPicked
    /\ cache = NoCache
    /\ nested = NoNested

EngineAtStart ==
    /\ engines = [id \in EngineIds |-> NoObject]
    /\ nEngines = 0
    /\ g_current_engine = NoEngine
    /\ pc = "idle"
    /\ app_index = 0
    /\ log = <<>>
    /\ res = Result("none", "ok", NoEngine, NoEngine)

Init ==
    /\ env \in Envs
    /\ EngineAtStart
    /\ registrations = NoRegistrations
    /\ bundle = NoBundle
    /\ installer = NoInstaller
    /\ SideAtStart

Next ==
    \/ StartEngine
    \/ InitEngineReturns
    \/ InitAppReturns
    \/ PostAppInitReturns
    \/ InitCompleteReturns
    \/ \E id \in EngineIds : Destroy(id)

Spec == Init /\ [][Next]_vars

\* The processes in which plugin code registers commands: one engine is
\* started and not destroyed; any list of apps, no frameworks.
CommandEnvs ==
    {e \in ConstructingEnvs :
        e.engine_check = "ok" /\ e.nfw = 0 /\ e.teardown_fault = "none"}

InitCommands ==
    /\ env \in CommandEnvs
    /\ EngineAtStart
    /\ registrations = NoRegistrations
    /\ bundle = NoBundle
    /\ installer = NoInstaller
    /\ SideAtStart

NextCommands ==
    \/ StartEngine
    \/ InitEngineReturns
    \/ InitAppReturns
    \/ PostAppInitReturns
    \/ InitCompleteReturns
    \/ \E id \in EngineIds, name \in CommandNames, callback \in Callbacks,
          p \in CallerProperties : RegisterCommand(id, name, callback, p)

SpecCommands == InitCommands /\ [][NextCommands]_vars

\* The constructions in which the load of an app can also fail before
\* init_app (engine.py:450-458): "instfail", get_application raises;
\* "fwfail", setup_frameworks of the app raises.
LoadKinds == AppKinds \cup {"instfail", "fwfail"}
LoadEnvs ==
    [pick : {"hook"}, lookup : {"ok"}, engine_check : {"ok"},
     log_error_overridden : BOOLEAN,
     apps : UNION {[1..n -> LoadKinds] : n \in 0..MaxApps},
     nfw : {0}, teardown_fault : {"none"}]

InitLoad ==
    /\ env \in LoadEnvs
    /\ EngineAtStart
    /\ registrations = NoRegistrations
    /\ bundle = NoBundle
    /\ installer = NoInstaller
    /\ SideAtStart

NextLoad ==
    \/ StartEngine
    \/ InitEngineReturns
    \/ InitAppReturns
    \/ PostAppInitReturns
    \/ InitCompleteReturns

SpecLoad == InitLoad /\ [][NextLoad]_vars

\* The processes in which hooks of a constructor start engines: the last
\* engine id is kept for the engine such a call constructs.
InitNested ==
    /\ env \in CommandEnvs
    /\ EngineAtStart
    /\ registrations = NoRegistrations
    /\ bundle = NoBundle
    /\ installer = NoInstaller
    /\ SideAtStart

NextNested ==
    \/ Slot # NestedId /\ StartEngine
    \/ InitEngineReturns
    \/ InitAppReturns
    \/ PostAppInitReturns
    \/ InitCompleteReturns
    \/ HookStartsEngine

SpecNested == InitNested /\ [][NextNested]_vars

\* An environment for the runs that start no engine.
PlainEnv ==
    [pick |-> "hook", lookup |-> "ok", engine_check |-> "ok",
     log_error_overridden |-> TRUE, apps |-> <<>>, nfw |-> 0,
     teardown_fault |-> "none"]

\* A bundle with any settings, and the arguments of one get_setting call.
InitSettings ==
    /\ env = PlainEnv
    /\ EngineAtStart
    /\ registrations = NoRegistrations
    /\ installer = NoInstaller
    /\ SideAtStart
    /\ bundle \in [settings : SettingsDicts,
                   key : SettingKeys \cup {"k3"},
                   default : SettingValues \cup {"d"},
                   result : {""}, raised : {FALSE}, called : {FALSE}]

NextSettings == CallGetSetting

SpecSettings == InitSettings /\ [][NextSettings]_vars

\* One run of the script: its arguments, what goes wrong and the settings
\* of the engine.
InitInstall ==
    /\ env = PlainEnv
    /\ EngineAtStart
    /\ registrations = NoRegistrations
    /\ bundle = NoBundle
    /\ SideAtStart
    /\ \E argc \in Argcs, fault \in InstallFaults, diff \in ParamDiffs :
           installer = [NoInstaller EXCEPT !.at = "main", !.argc = argc,
                                           !.fault = fault, !.param_diff = diff]

NextInstall ==
    \/ Main
    \/ AddEngine
    \/ AutoPopulate
    \/ \E answer \in Inputs : Prompt(answer)
    \/ WriteEnvironment

SpecInstall == InitInstall /\ [][NextInstall]_vars

\* The script goes on while it can, and a user at a prompt eventually gives
\* an empty line or a value that validates.
AnswerGiven == \E answer \in {"", "valid"} : Prompt(answer)
SpecInstallFair ==
    SpecInstall /\ WF_vars(NextInstall) /\ WF_vars(AnswerGiven)

\* One call of __pick_environment for any engine name, context and hook.
InitPick ==
    /\ env = PlainEnv
    /\ EngineAtStart
    /\ registrations = NoRegistrations
    /\ bundle = NoBundle
    /\ installer = NoInstaller
    /\ cache = NoCache
    /\ nested = NoNested
    /\ \E engine_name \in EngineNames, context \in Contexts, hook \in Hooks :
           picked = [NoPicked EXCEPT !.engine_name = engine_name,
                                     !.context = context, !.hook = hook]

NextPick == CallPickEnvironment

SpecPick == InitPick /\ [][NextPick]_vars

\* One run of the command on any cache folder.
InitClearCache ==
    /\ env = PlainEnv
    /\ EngineAtStart
    /\ registrations = NoRegistrations
    /\ bundle = NoBundle
    /\ installer = NoInstaller
    /\ picked = NoPicked
    /\ nested = NoNested
    /\ \E folder \in SUBSET CacheFolderNames, mode \in {"interactive", "api"},
          nargs \in ArgCounts :
         \E locked \in SUBSET folder :
            cache = [NoCache EXCEPT !.at = "ready", !.mode = mode,
                                    !.nargs = nargs, !.folder = folder,
                                    !.locked = locked]

NextClearCache ==
    \/ RunClearCache
    \/ \E f \in CacheFolderNames : RemoveCacheFile(f)
    \/ ClearCacheReturns

SpecClearCache == InitClearCache /\ [][NextClearCache]_vars

----------------------------------------------------------------------------
\* Vocabulary of the properties.

Count(seq, x) == Cardinality({j \in DOMAIN seq : seq[j] = x})
Called(seq, ev) == \E j \in DOMAIN seq : seq[j].ev = ev
Positions(seq, x) == {j \in DOMAIN seq : seq[j] = x}

\* A call of start_engine / destroy has just returned or raised.
StartEnded == pc = "idle" /\ res.op = "start_engine"
DestroyReturned == res.op = "destroy" /\ res.kind = "ok"

\* Engines start_engine returned on which no destroy() call has returned.
LiveEngines == {id \in EngineIds : engines[id].st = "live"}

\* The step is a start_engine call made while an engine is current.
StartCallWhileRunning ==
    /\ pc = "idle"
    /\ g_current_engine # NoEngine
    /\ res'.op = "start_engine"

\* C1: a start_engine call made while an engine is current raises TankError,
\* leaves the current engine what it was, picks no environment and
\* constructs no engine.
C1_StartWhileRunningFails ==
    [][StartCallWhileRunning =>
          /\ res'.kind = "TankError"
          /\ g_current_engine' = g_current_engine
          /\ ~Called(log', "pick_environment")
          /\ engines' = engines
          /\ nEngines' = nEngines
          /\ pc' = "idle"]_vars

C1_Witness ==
    /\ StartEnded
    /\ res.kind = "TankError"
    /\ res.before # NoEngine
    /\ g_current_engine = res.before

C3_AtMostOneLiveEngine == Cardinality(LiveEngines) <= 1

\* C4: the engine start_engine returns is the current engine, and the
\* current engine stays that object until a destroy() call.
C4_ReturnedEngineIsCurrent ==
    /\ [](StartEnded /\ res.kind = "ok" => g_current_engine = res.eng)
    /\ [][g_current_engine # NoEngine /\ g_current_engine' # g_current_engine
             => res'.op = "destroy"]_vars

C4_Witness ==
    /\ StartEnded
    /\ res.kind = "ok"
    /\ g_current_engine = res.eng
    /\ engines[res.eng].applications # {}

\* __load_apps of the engine in Slot is over: it returned, or an exception
\* left it.
LoadingOver ==
    \/ pc \in {"post_app_init", "init_complete"}
    \/ pc = "idle" /\ Slot \in EngineIds /\ engines[Slot].st = "failed"
         /\ env.engine_check = "ok"

FailsValidation(i) == env.apps[i] \in {"invalid", "unsupported"}

\* C5 (as claimed): once app loading is over, no app that failed validation
\* is a key of engine.apps and every valid app whose init_app does not raise
\* is, wherever the invalid app stands in the list.
C5_InvalidAppSkippedOthersLoaded ==
    LoadingOver =>
        \A i \in DeclaredApps :
            /\ FailsValidation(i) => i \notin engines[Slot].applications
            /\ (env.apps[i] = "ok" /\ \E h \in DeclaredApps : FailsValidation(h))
                  => i \in engines[Slot].applications

\* init_app of app i was called by the start_engine call that just ended,
\* and raised.
InitAppRaised(i) ==
    /\ StartEnded
    /\ env.apps[i] = "initfail"
    /\ Count(log, Ev("init_app", i, 0)) > 0

\* The engine object of the start_engine call that just ended.
Built == IF res.kind = "ok" THEN res.eng ELSE Slot

\* C6 (as claimed): an exception raised by init_app is caught and logged, the
\* app is not in engine.apps, no exception leaves the construction and the
\* apps declared after it are loaded.
C6_InitAppFailureIsolated ==
    \A i \in DeclaredApps :
        InitAppRaised(i) =>
            /\ Count(log, Ev("log_exception", i, 0)) = 1
            /\ i \notin engines[Built].applications
            /\ res.kind = "ok"
            /\ \A h \in DeclaredApps :
                   h > i /\ env.apps[h] = "ok" => h \in engines[Built].applications

\* C7: when the engine does not validate, start_engine raises the error,
\* returns no engine, the current engine stays None and the constructor did
\* nothing beyond the validation: no framework, no init_engine, no app.
C7_EngineValidationAborts ==
    (env.engine_check # "ok" /\ res.op = "start_engine") =>
        /\ pc = "idle"
        /\ res.kind = "TankError"
        /\ res.eng = NoEngine
        /\ g_current_engine = NoEngine
        /\ nEngines = 0
        /\ engines[Slot].frameworks = {}
        /\ engines[Slot].applications = {}
        /\ ~Called(log, "setup_frameworks")
        /\ ~Called(log, "init_engine")
        /\ ~Called(log, "get_application")
        /\ ~Called(log, "init_app")
        /\ ~Called(log, "set_current_engine")

C7_Witness ==
    /\ env.engine_check = "settings"
    /\ env.nfw > 0
    /\ NumApps > 0
    /\ StartEnded
    /\ res.kind = "TankError"
    /\ Called(log, "validate_engine")

\* C8: after destroy() returned on the current engine the pointer is None,
\* and a start_engine call made then is not refused as already running.
C8_DestroyClearsCurrent ==
    /\ [](DestroyReturned /\ res.before = res.eng => g_current_engine = NoEngine)
    /\ [][(DestroyReturned /\ res.before = res.eng /\ res'.op = "start_engine")
             => /\ res'.before = NoEngine
                /\ Called(log', "pick_environment")]_vars

C8_Witness ==
    /\ StartEnded
    /\ res.kind = "ok"
    /\ res.eng = 2
    /\ engines[1].st = "destroyed"

\* C9: a destroy() call that returns has called destroy_app of every app in
\* engine.apps once, and the teardown of every framework of the engine and
\* of each of these apps once.
C9_TeardownExactlyOnce ==
    DestroyReturned =>
        LET e == engines[res.eng]
        IN  /\ \A i \in e.applications :
                  /\ Count(log, Ev("destroy_app", i, 0)) = 1
                  /\ \A k \in RequiredFrameworks :
                         Count(log, Ev("destroy_framework", i, k)) = 1
            /\ \A k \in e.frameworks :
                   Count(log, Ev("destroy_framework", 0, k)) = 1

C9_Witness ==
    /\ DestroyReturned
    /\ Cardinality(engines[res.eng].applications) >= 2
    /\ engines[res.eng].frameworks # {}

\* C10: destroy() tears down the engine's frameworks first, then each app's
\* frameworks before that app's destroy_app, destroy_engine after every
\* destroy_app, and clears the current-engine pointer last.
C10_TeardownOrder ==
    res.op = "destroy" =>
        LET EngFw == {j \in DOMAIN log :
                         log[j].ev = "destroy_framework" /\ log[j].who = 0}
            OfApps == {j \in DOMAIN log :
                         \/ log[j].ev = "destroy_app"
                         \/ log[j].ev = "destroy_framework" /\ log[j].who # 0}
            AppFw(i) == {j \in DOMAIN log :
                         log[j].ev = "destroy_framework" /\ log[j].who = i}
            App(i) == Positions(log, Ev("destroy_app", i, 0))
            EngineHook == Positions(log, Ev("destroy_engine", 0, 0))
            Cleared == Positions(log, Ev("set_current_engine", NoEngine, 0))
        IN  /\ \A a \in EngFw, b \in OfApps : a < b
            /\ \A i \in DeclaredApps : \A a \in AppFw(i), b \in App(i) : a < b
            /\ \A a \in OfApps, b \in EngineHook : a < b
            /\ \A a \in EngFw, b \in EngineHook : a < b
            /\ \A a \in DOMAIN log, b \in Cleared : a <= b
            /\ res.kind = "ok" => Cleared = {Len(log)} /\ EngineHook = {Len(log) - 1}

C10_Witness ==
    /\ DestroyReturned
    /\ Cardinality(engines[res.eng].applications) >= 2
    /\ engines[res.eng].frameworks # {}
    /\ log[1] = Ev("destroy_framework", 0, 1)
    /\ log[Len(log)] = Ev("set_current_engine", NoEngine, 0)
\* The step is a register_command call.
RegisterStep == registrations'.n = registrations.n + 1

\* C11: after register_command(name, callback, properties) the engine's
\* commands hold under name the callback and properties of this call, also
\* when the name was registered before, and the other entries are unchanged.
C11_LastWriteWins ==
    [][RegisterStep =>
          LET id == registrations'.engine
              name == registrations'.name
              old == engines[id].commands
              new == engines'[id].commands
          IN  /\ DOMAIN new = DOMAIN old \cup {name}
              /\ new[name].callback = registrations'.callback
              /\ new[name].properties.dict =
                     (IF registrations'.properties = "None" THEN "empty"
                      ELSE registrations'.properties)
              /\ \A m \in DOMAIN old \ {name} : new[m] = old[m]
              /\ \A other \in EngineIds \ {id} :
                     engines'[other].commands = engines[other].commands]_vars

C11_Witness ==
    /\ registrations.n = 2
    /\ registrations.previous # ""
    /\ registrations.previous # registrations.callback
    /\ DOMAIN engines[registrations.engine].commands = {registrations.name}
    /\ engines[registrations.engine].commands[registrations.name].callback
           = registrations.callback

\* C12: a command registered while init_app of app X is executing carries
\* X under "app"; one registered at any other time carries the caller's
\* properties without that key.
C12_CommandTaggedWithInitializingApp ==
    [][RegisterStep =>
          LET id == registrations'.engine
              stored == engines'[id].commands[registrations'.name].properties
          IN  /\ (pc = "init_app" /\ id = Slot) => stored.app = app_index
              /\ ~(pc = "init_app" /\ id = Slot) => stored.app = 0
              /\ registrations'.properties # "None"
                    => stored.dict = registrations'.properties]_vars

C12_Witness ==
    \E id \in EngineIds :
        LET c == engines[id].commands
        IN  /\ DOMAIN c = CommandNames
            /\ c["cmd_a"].properties.app = 2
            /\ c["cmd_b"].properties.app = 0
            /\ engines[id].st = "live"
\* C13: get_setting(key, default) returns the configured value of a key that
\* is in the settings and default for one that is not, raises for neither
\* and leaves the settings as they were.
C13_GetSetting ==
    [][(bundle'.called /\ ~bundle.called) =>
          /\ ~bundle'.raised
          /\ bundle.key \in DOMAIN bundle.settings
                => bundle'.result = bundle.settings[bundle.key]
          /\ bundle.key \notin DOMAIN bundle.settings
                => bundle'.result = bundle.default
          /\ bundle'.settings = bundle.settings
          /\ bundle'.key = bundle.key /\ bundle'.default = bundle.default]_vars

C13_Witness ==
    /\ bundle.called
    /\ bundle.key = "k3"
    /\ DOMAIN bundle.settings = SettingKeys
    /\ bundle.default = "d"
    /\ bundle.result = "d"
\* C14 (as claimed): with app A valid and app B failing the validation of
\* its settings, start_engine returns an engine whose apps are exactly {A},
\* and log_error was called for B.
C14_ValidLoadedInvalidLogged ==
    \A a, b \in DeclaredApps :
        (/\ NumApps = 2
         /\ env.apps[a] = "ok"
         /\ env.apps[b] = "invalid"
         /\ env.engine_check = "ok"
         /\ StartEnded
         /\ res.before = NoEngine)
        => /\ res.kind = "ok"
           /\ engines[res.eng].applications = {a}
           /\ Count(log, Ev("log_error", b, 0)) >= 1

\* The phases of Engine.__init__, in the order of the claim.
Phases ==
    <<"validate_engine", "setup_frameworks", "init_engine", "post_app_init",
      "engine_init_hook">>
PhaseAt(n) == Positions(log, Ev(Phases[n], 0, 0))
\* The calls __load_apps makes for the declared apps.
AppCalls == {j \in DOMAIN log : log[j].who \in DeclaredApps
                                 /\ log[j].ev # "set_current_engine"}

\* C15: in one construction each phase runs at most once and only after the
\* phase before it, the apps are handled between init_engine and
\* post_app_init, and when post_app_init runs every declared app is loaded
\* or was skipped with an error.
C15_ConstructionPhases ==
    res.op = "start_engine" =>
        /\ \A n \in DOMAIN Phases : Cardinality(PhaseAt(n)) <= 1
        /\ \A n \in 2..Len(Phases) :
               \A b \in PhaseAt(n) : \E a \in PhaseAt(n - 1) : a < b
        /\ \A j \in AppCalls :
               /\ \E a \in PhaseAt(3) : a < j
               /\ \A b \in PhaseAt(4) : j < b
        /\ PhaseAt(4) # {} =>
               \A i \in DeclaredApps :
                   \/ i \in engines[Built].applications
                   \/ \E j \in AppCalls : log[j] = Ev("log_error", i, 0)
        /\ (StartEnded /\ res.kind = "ok") =>
               \A n \in DOMAIN Phases : PhaseAt(n) # {}

C15_Witness ==
    /\ StartEnded
    /\ res.kind = "ok"
    /\ env.nfw > 0
    /\ NumApps = 2
    /\ env.apps[1] = "invalid"
    /\ engines[res.eng].applications = {2}
    /\ PhaseAt(5) # {}

\* C16 (as claimed): a start_engine call that is not refused as already
\* running and returns no engine raises TankEngineInitError.
C16_FailureIsEngineInitError ==
    (StartEnded /\ res.before = NoEngine /\ res.kind # "ok")
        => res.kind = "TankEngineInitError"

\* C17 (as claimed): on an engine that does not override log_error, a
\* log_error call returns normally: no TypeError leaves the construction
\* that made it.
C17_BaseLogErrorReturns ==
    (~env.log_error_overridden /\ StartEnded /\ Called(log, "log_error"))
        => res.kind # "TypeError"

\* C20: in one start_engine call the engine is validated at most once, each
\* declared app is validated at most once and its init_app called at most
\* once, and a call that failed has ended: nothing is under construction.
C20_NoRetry ==
    res.op = "start_engine" =>
        /\ Count(log, Ev("validate_engine", 0, 0)) <= 1
        /\ Count(log, Ev("init_engine", 0, 0)) <= 1
        /\ Count(log, Ev("pick_environment", 0, 0)) <= 1
        /\ Count(log, Ev("load_environment", 0, 0)) <= 1
        /\ \A i \in DeclaredApps :
               /\ Count(log, Ev("validate_app", i, 0)) <= 1
               /\ Count(log, Ev("get_application", i, 0)) <= 1
               /\ Count(log, Ev("init_app", i, 0)) <= 1
        /\ res.kind \notin {"ok", "running"} =>
               /\ pc = "idle"
               /\ g_current_engine = res.before
               /\ \A id \in EngineIds : engines[id].st # "constructing"

C20_Witness ==
    /\ StartEnded
    /\ res.kind = "ok"
    /\ NumApps = 2
    /\ env.apps[1] = "initfail"
    /\ env.apps[2] = "invalid"
    /\ Count(log, Ev("init_app", 1, 0)) = 1
    /\ Count(log, Ev("validate_app", 2, 0)) = 1
\* C18 (as claimed): the script exits with code 0 exactly when the engine
\* was added to the environment, and with code 1 after a TankError, after
\* any other exception and when called with a wrong number of arguments.
C18_ExitCode ==
    installer.at = "exited" =>
        /\ installer.exit_code = 0 <=> installer.environment = "added"
        /\ installer.error # "none" => installer.exit_code = 1
        /\ installer.argc # ExpectedArgc => installer.exit_code = 1

\* The step is a turn of the prompt loop of setting n in which the user
\* gave an answer.
Turn(n) ==
    /\ installer.at = "params"
    /\ installer.idx = n
    /\ n \in DOMAIN installer.param_diff
    /\ installer.param_diff[n] = "prompt"
    /\ installer'.answer \in Answers
    /\ installer' # installer
Stored(i, n) == Count(i.stores, n)

\* C19: a turn with an answer that fails validation stores nothing and is
\* followed by another prompt for the same setting; a turn with an answer
\* that validates stores the validated value and one with an empty answer
\* stores None, and the loop is left with one value recorded; no value is
\* recorded otherwise, and a user who eventually gives a valid or empty
\* answer gets out of the loop.
C19_PromptLoop ==
    /\ [][\A n \in 1..MaxParams :
            Turn(n) =>
              /\ installer'.answer = "invalid" =>
                    /\ installer'.idx = n /\ installer'.at = "params"
                    /\ installer'.params = installer.params
                    /\ Stored(installer', n) = 0
              /\ installer'.answer = "valid" =>
                    /\ installer'.idx = n + 1
                    /\ installer'.params[n] = "validated"
                    /\ Stored(installer', n) = 1
              /\ installer'.answer = "" =>
                    /\ installer'.idx = n + 1
                    /\ installer'.params[n] = "None"
                    /\ Stored(installer', n) = 1
              /\ \A m \in DOMAIN installer.params :
                    installer'.params[m] = installer.params[m]]_vars
    /\ [](\A n \in DOMAIN installer.param_diff :
            /\ Stored(installer, n) <= 1
            /\ Stored(installer, n) = 1 <=> n \in DOMAIN installer.params
            /\ (installer.param_diff[n] = "prompt" /\ n < installer.idx)
                  => /\ n \in DOMAIN installer.params
                     /\ installer.params[n] \in {"validated", "None"})
    /\ \A n \in 1..MaxParams :
          (/\ installer.at = "params" /\ installer.idx = n
           /\ n \in DOMAIN installer.param_diff
           /\ installer.param_diff[n] = "prompt")
          ~> \/ installer.idx > n /\ Stored(installer, n) = 1
             \/ installer.answer = "eof"

C19_Witness ==
    /\ installer.at = "params"
    /\ installer.idx = 2
    /\ installer.param_diff[1] = "prompt"
    /\ installer.asked = 0
    /\ installer.answer = "valid"
    /\ installer.params[1] = "validated"
\* C21: for a built-in Shotgun engine name __pick_environment returns the
\* Shotgun environment and does not execute the hook; for any other engine
\* name it executes the hook once, with the context, and returns the
\* environment the hook returned; a hook that raises or returns None gives
\* TankEngineInitError.
C21_PickEnvironment ==
    picked.called =>
        LET answer == picked.hook[picked.context]
        IN  /\ picked.engine_name \in ShotgunEngines =>
                  /\ picked.env_name = ShotgunEnvironment
                  /\ picked.hook_calls = <<>>
                  /\ picked.raises = "none"
            /\ picked.engine_name \notin ShotgunEngines =>
                  /\ picked.hook_calls = <<picked.context>>
                  /\ answer \in EnvNames =>
                        picked.env_name = answer /\ picked.raises = "none"
                  /\ answer \notin EnvNames =>
                        picked.raises = "TankEngineInitError"

C21_Witness ==
    /\ picked.called
    /\ picked.engine_name \in ShotgunEngines
    /\ picked.hook[picked.context] = "asset"
    /\ picked.env_name = ShotgunEnvironment
    /\ picked.hook_calls = <<>>
\* C22 (as claimed): an app instance that is not on disk gets one log_error
\* call, is not validated, not instantiated and not in engine.apps, and
\* every app declared after it is still processed.
C22_MissingAppSkipped ==
    LoadingOver =>
        \A i \in DeclaredApps :
            env.apps[i] = "missing" =>
                /\ Count(log, Ev("log_error", i, 0)) = 1
                /\ Count(log, Ev("validate_app", i, 0)) = 0
                /\ Count(log, Ev("get_application", i, 0)) = 0
                /\ i \notin engines[Slot].applications
                /\ \A h \in DeclaredApps :
                       h > i => \E j \in DOMAIN log : log[j].who = h

\* C23: the engine start_engine returns has as apps exactly the declared
\* app instances that are on disk, validate, and whose instantiation,
\* framework setup and init_app raise nothing; engine.apps never holds
\* anything but declared app instances.
C23_AppsAreTheLoadedOnes ==
    /\ \A id \in EngineIds : engines[id].applications \subseteq DeclaredApps
    /\ (StartEnded /\ res.kind = "ok") =>
           engines[res.eng].applications = {i \in DeclaredApps : env.apps[i] = "ok"}

C23_Witness ==
    /\ StartEnded
    /\ res.kind = "ok"
    /\ NumApps = 2
    /\ env.apps[1] = "fwfail"
    /\ env.apps[2] = "ok"
    /\ engines[res.eng].applications = {2}
\* The step is a start_engine call made by a hook of a constructor.
NestedStep == nested'.calls = nested.calls + 1

\* C24 (as claimed): current_engine() is None during the whole of a
\* construction, and no start_engine call made by one of its hooks is
\* refused as already running.
C24_NullDuringConstruction ==
    /\ [](pc # "idle" => g_current_engine = NoEngine)
    /\ [][NestedStep => nested'.last # "TankError"]_vars

\* C24 (amended): the engine under construction is never the current engine;
\* current_engine() is None during a construction as long as none of its
\* hooks has started an engine, and a start_engine call made by a hook is
\* refused as already running exactly when the current engine is not None,
\* which an earlier such call brings about.
C24_NullUntilAHookStartsAnEngine ==
    /\ [](pc # "idle" => g_current_engine # Slot)
    /\ [](pc # "idle" /\ engines[NestedId].st # "live"
             => g_current_engine = NoEngine)
    /\ [][NestedStep =>
             /\ nested'.last = "TankError" <=> g_current_engine # NoEngine
             /\ g_current_engine # NoEngine => g_current_engine = NestedId
             /\ nested'.last = "ok" => g_current_engine' = NestedId]_vars

C24_Witness ==
    /\ pc = "init_app"
    /\ nested.calls = 2
    /\ nested.last = "TankError"
    /\ g_current_engine = NestedId
    /\ engines[NestedId].st = "live"
\* A destroy() call has just raised.
DestroyRaised == res.op = "destroy" /\ res.kind = "Exception"

\* C25: destroy() raises when a teardown hook it calls raises; the hook that
\* raised is the last call destroy() made, the steps after it (the remaining
\* apps, destroy_engine, clearing the pointer) are not run, the pointer is
\* what it was, and a start_engine call made then while an engine is current
\* fails as already running.
C25_TeardownFailurePropagates ==
    /\ [](res.op = "destroy" =>
            LET e == engines[res.eng]
                hit == \/ env.teardown_fault = "engine"
                       \/ env.teardown_fault = "framework" /\ e.frameworks # {}
                       \/ env.teardown_fault = "app" /\ 1 \in e.applications
            IN  /\ hit <=> res.kind = "Exception"
                /\ res.kind = "Exception" =>
                      /\ log # <<>>
                      /\ Raises(log[Len(log)])
                      /\ \A j \in 1..(Len(log) - 1) : ~Raises(log[j])
                      /\ ~Called(log, "set_current_engine")
                      /\ env.teardown_fault # "engine" => ~Called(log, "destroy_engine")
                      /\ env.teardown_fault = "framework" => ~Called(log, "destroy_app")
                      /\ g_current_engine = res.before
                      /\ e.st # "destroyed")
    /\ [][(DestroyRaised /\ g_current_engine # NoEngine /\ res'.op = "start_engine")
             => /\ res'.kind = "TankError"
                /\ g_current_engine' = g_current_engine
                /\ log' = <<>>]_vars

C25_Witness ==
    /\ DestroyRaised
    /\ env.teardown_fault = "app"
    /\ engines[res.eng].applications = {1, 2}
    /\ log[1] = Ev("destroy_app", 2, 0)
    /\ g_current_engine = res.eng
\* The step is the end of an init_app call: it returned or raised.
InitAppEnds == pc = "init_app" /\ ~RegisterStep /\ log' # log

\* The commands of engine e that are tagged with app i.
TaggedWith(e, i) ==
    {n \in DOMAIN e.commands : e.commands[n].properties.app = i}

\* C26: when init_app of an app raises, the app is not put in engine.apps
\* and the commands the engine holds, those the app registered among them,
\* stay as they are, tagged with that app.
C26_CommandsOfDroppedAppStay ==
    [][InitAppEnds =>
          /\ engines'[Slot].commands = engines[Slot].commands
          /\ env.apps[app_index] = "initfail" =>
                /\ app_index \notin engines'[Slot].applications
                /\ TaggedWith(engines'[Slot], app_index)
                      = TaggedWith(engines[Slot], app_index)]_vars

C26_Witness ==
    /\ StartEnded
    /\ res.kind = "ok"
    /\ NumApps >= 1
    /\ env.apps[1] = "initfail"
    /\ 1 \notin engines[res.eng].applications
    /\ TaggedWith(engines[res.eng], 1) = {"cmd_a"}

\* C27: destroy() calls destroy_app and the framework teardown of no app
\* that is not in engine.apps, so of no app whose init_app raised.
C27_DroppedAppNotTornDown ==
    res.op = "destroy" =>
        \A i \in DeclaredApps :
            i \notin engines[res.eng].applications =>
                \A j \in DOMAIN log : log[j].who # i

C27_Witness ==
    /\ DestroyReturned
    /\ env.nfw > 0
    /\ NumApps = 2
    /\ env.apps[1] = "initfail"
    /\ engines[res.eng].applications = {2}
    /\ Count(log, Ev("destroy_app", 2, 0)) = 1
\* C28: the environment is written only in a run in which the duplicate
\* check and the constraint check passed and in which params holds a value
\* for every setting; a run whose engine is in the environment already or
\* fails a constraint ends with TankError and the environment unchanged.
C28_WritesAfterChecks ==
    /\ installer.environment # "unchanged" =>
           /\ installer.argc = ExpectedArgc
           /\ installer.fault \notin {"environment", "find_item", "duplicate",
                                      "constraints", "download"}
           /\ DOMAIN installer.params = DOMAIN installer.param_diff
           /\ \A n \in DOMAIN installer.param_diff : Stored(installer, n) = 1
    /\ (/\ installer.at = "exited"
        /\ installer.argc = ExpectedArgc
        /\ installer.fault \in {"duplicate", "constraints"})
          => /\ installer.error = "TankError"
             /\ installer.environment = "unchanged"
             /\ installer.params = <<>>

C28_Witness ==
    /\ installer.environment = "added"
    /\ Len(installer.param_diff) = 2
    /\ installer.param_diff[1] = "prompt"
    /\ installer.params[1] = "None"
    /\ installer.param_diff[2] = "hook"
\* The names that start with "shotgun" and end with ".txt".
MenuCacheFiles == {f \in CacheFolderNames : f[1] = "shotgun" /\ f[Len(f)] = ".txt"}

\* C29: the command removes only menu cache files; when it has returned,
\* every menu cache file that could be deleted is gone and each one that
\* could not has its warning; run_interactive with an argument raises
\* TankError and deletes nothing.
C29_ClearCache ==
    /\ cache.at \in {"running", "done"} /\ cache.error = "none" =>
           cache.listed \ cache.folder \subseteq MenuCacheFiles
    /\ (cache.at = "done" /\ cache.error = "none") =>
           /\ cache.folder = cache.listed \ (MenuCacheFiles \ cache.locked)
           /\ cache.warnings = cache.listed \cap MenuCacheFiles \cap cache.locked
           /\ cache.info
    /\ (cache.at = "done" /\ cache.mode = "interactive" /\ cache.nargs # 0) =>
           /\ cache.error = "TankError"
           /\ cache.listed = {} /\ cache.debug = {} /\ cache.warnings = {}
    /\ cache.error = "TankError" =>
           cache.mode = "interactive" /\ cache.nargs # 0

C29_Witness ==
    /\ cache.at = "done"
    /\ cache.error = "none"
    /\ cache.listed = CacheFolderNames
    /\ cache.warnings = {<<"shotgun", ".txt">>}
    /\ cache.folder = CacheFolderNames \ {<<"shotgun", "_mac_project", ".txt">>}
\* C30: the marker of the engine under construction is app X exactly while
\* init_app of X is executing; in every other state, and on every other
\* engine, it is None: before and after each init_app, after one that
\* raised, after a construction that failed and after one that finished.
C30_MarkerOnlyDuringInitApp ==
    /\ pc = "init_app" => app_index \in DeclaredApps
    /\ \A id \in EngineIds :
           engines[id].currently_initializing_app
               = IF pc = "init_app" /\ id = Slot THEN app_index ELSE 0

C30_Witness ==
    /\ pc = "init_app"
    /\ app_index = 2
    /\ env.apps[1] = "initfail"
    /\ engines[Slot].currently_initializing_app = 2
    /\ engines[Slot].applications = {}
====
